---- MODULE Spec2Model ----
(***************************************************************************)
(* Model of the HTML decomposition / reconstruction engine of yarr:        *)
(*   - notion.HTMLToNotionBlocks and its helpers (Export conversion),      *)
(*   - notion.NotionClient.CreatePage / appendBlocks (Export batching),    *)
(*   - translator.HTMLTranslator.TranslateHTML (Augmentation).             *)
(*                                                                         *)
(* A string is a sequence of one-character strings.  A parsed document is  *)
(* an arena: a sequence of nodes in document (pre-)order, each naming the  *)
(* index of its parent, as golang.org/x/net/html builds it.                *)
(***************************************************************************)
EXTENDS Integers, Sequences, FiniteSets, TLC

VARIABLES
    pc,         \* position of the running operation
    doc,        \* the parsed document (html.Parse result)
    pos,        \* index of the node the traversal visits next
    blocks,     \* notion: the blocks accumulated by HTMLToNotionBlocks
    origin,     \* history: origin[k] is the node that produced blocks[k]
    spText,     \* splitTextIntoChunks: argument text
    spMax,      \* splitTextIntoChunks: argument maxLen
    spChunks,   \* splitTextIntoChunks: returned chunks
    spRest,     \* splitTextIntoChunks: the text left to split inside the loop
    result,     \* translator: the strings.Builder of TranslateHTML
    calls,      \* history: the Translate calls issued, in order
    segs,       \* history: what each visited element wrote to result
    pageResp,   \* notion client: the decoded page-creation response
    requests,   \* history: the requests sent to the Notion API, in order
    apIdx,      \* notion client: loop index i of appendBlocks
    ctxDone,    \* translator: whether the caller's context is cancelled
    stText,     \* translateSimpleText: argument text
    stIdx,      \* translateSimpleText: index of the paragraph the loop is at
    newPkg,     \* New: the package whose constructor is called
    newConfig,  \* New: argument config
    tcContent,  \* truncateContent: argument content
    tcMax,      \* truncateContent: argument maxLen
    folders,    \* storage: the rows of the table folders
    nextId,     \* storage: the id the next inserted row gets
    ret         \* the values the finished operation returned

exportVars == <<blocks, origin>>
splitVars == <<spText, spMax, spChunks, spRest>>
augVars == <<result, calls, segs>>
clientVars == <<pageResp, requests, apIdx>>
furtherVars == <<stText, stIdx, newPkg, newConfig, tcContent, tcMax, folders, nextId>>

vars == <<pc, doc, pos, exportVars, splitVars, augVars, clientVars, furtherVars, ctxDone, ret>>

(***************************************************************************)
(* Bounds of the model.                                                    *)
(***************************************************************************)
MaxNodes == 2       \* nodes below <body> in a document to export
MaxAugNodes == 2    \* nodes below <body> in a document to augment
MaxBlockCount == 301 \* blocks handed to the Notion client
MaxTextLen == 4     \* length of the texts handed to the chunk splitter
MaxChunkLen == 3    \* largest maxLen handed to the chunk splitter
MaxIterations == 6  \* passes of the splitter's loop that are followed
MaxSimpleLen == 5   \* longest text handed to translateSimpleText
MaxFolders == 2     \* rows ever inserted into the table folders

(***************************************************************************)
(* Program constants.                                                      *)
(***************************************************************************)
MaxBlockTextLength == 2000
maxContentLength == 10000    \* summarizer: the limit Summarize truncates to
maxBlocksPerRequest == 100

(***************************************************************************)
(* Strings.                                                                *)
(***************************************************************************)
Whitespace == {" ", "\n", "\t"}

RECURSIVE TrimLeft(_)
TrimLeft(s) ==
    IF s = <<>> THEN s
    ELSE IF Head(s) \in Whitespace THEN TrimLeft(Tail(s)) ELSE s

RECURSIVE TrimRight(_)
TrimRight(s) ==
    IF s = <<>> THEN s
    ELSE IF s[Len(s)] \in Whitespace THEN TrimRight(SubSeq(s, 1, Len(s) - 1))
    ELSE s

\* strings.TrimSpace
TrimSpace(s) == TrimRight(TrimLeft(s))

\* a text of n characters in which neighbouring positions differ
Pat(n) == [i \in 1..n |-> IF i % 3 = 1 THEN "a" ELSE IF i % 3 = 2 THEN "b" ELSE "c"]

RECURSIVE Concat(_)
Concat(ss) == IF ss = <<>> THEN <<>> ELSE Head(ss) \o Concat(Tail(ss))

(***************************************************************************)
(* Documents, as html.Parse builds them.                                   *)
(***************************************************************************)
DocumentNode == [Type |-> "Document", Tag |-> "", Attr |-> <<>>, Text |-> <<>>, Parent |-> 0]
ElementNode(tag, attr, parent) ==
    [Type |-> "Element", Tag |-> tag, Attr |-> attr, Text |-> <<>>, Parent |-> parent]
TextNode(text, parent) ==
    [Type |-> "Text", Tag |-> "", Attr |-> <<>>, Text |-> text, Parent |-> parent]

\* html.Parse always builds Document > html > (head, body)
BaseDoc ==
    <<DocumentNode, ElementNode("html", <<>>, 1), ElementNode("head", <<>>, 2),
      ElementNode("body", <<>>, 2)>>
BodyIdx == 4

RECURSIVE Ancestors(_, _)
Ancestors(d, i) ==
    IF d[i].Parent = 0 THEN {} ELSE {d[i].Parent} \cup Ancestors(d, d[i].Parent)

Children(d, i) == {j \in 1..Len(d) : d[j].Parent = i}

Descendants(d, i) == {j \in 1..Len(d) : i \in Ancestors(d, j)}

Headings == {"h1", "h2", "h3", "h4", "h5", "h6"}

\* start tags that close an open <p> (the parser's "in body" insertion mode)
ClosesP == {"p", "div", "ul", "ol", "li", "blockquote", "pre"} \cup Headings

\* elements of the parser's "special" category
Special == {"html", "head", "body", "p", "div", "ul", "ol", "li", "blockquote", "pre"} \cup Headings

\* a <li> start tag closes an open <li> unless a special element other than
\* div or p lies in between
RECURSIVE LiAllowed(_, _)
LiAllowed(d, p) ==
    IF p = 0 THEN TRUE
    ELSE IF d[p].Tag = "li" THEN FALSE
    ELSE IF d[p].Tag \in Special \ {"div", "p"} THEN TRUE
    ELSE LiAllowed(d, d[p].Parent)

\* whether the parser can put node nd, as the next node in document order,
\* below the open element p of document d
ValidChild(d, p, nd) ==
    LET path == {p} \cup Ancestors(d, p)
        sibs == Children(d, p)
    IN  IF nd.Type = "Text"
        THEN /\ nd.Text # <<>>
             /\ sibs # {} => d[CHOOSE j \in sibs : \A k \in sibs : k <= j].Type # "Text"
             /\ (p = BodyIdx /\ sibs = {}) => nd.Text[1] \notin Whitespace
        ELSE /\ nd.Tag \in ClosesP => \A a \in path : d[a].Tag # "p"
             /\ nd.Tag \in Headings => d[p].Tag \notin Headings
             /\ nd.Tag = "li" => LiAllowed(d, p)

\* the open elements below which the next node can go
OpenElements(d) ==
    {p \in {Len(d)} \cup Ancestors(d, Len(d)) : p >= BodyIdx /\ d[p].Type = "Element"}

\* elems: the <<tag, attributes>> pairs and texts: the texts to build from
Extensions(d, elems, texts) ==
    {Append(d, nd) : nd \in
        {n \in UNION {{ElementNode(e[1], e[2], p) : e \in elems}
                         \cup {TextNode(x, p) : x \in texts}
                        : p \in OpenElements(d)} : ValidChild(d, n.Parent, n)}}

\* the documents with at most k nodes below <body>
RECURSIVE Documents(_, _, _)
Documents(elems, texts, k) ==
    IF k = 0 THEN {BaseDoc}
    ELSE LET prev == Documents(elems, texts, k - 1)
         IN  prev \cup UNION {Extensions(d, elems, texts) :
                                d \in {e \in prev : Len(e) = Len(BaseDoc) + k - 1}}

\* the document with the nodes ns (given without the html/head/body prefix,
\* parents counted from <body> = 0) below <body>
DocOf(ns) == BaseDoc \o [i \in 1..Len(ns) |-> [ns[i] EXCEPT !.Parent = @ + BodyIdx]]

(***************************************************************************)
(* notion/converter.go                                                     *)
(***************************************************************************)
Block(type, content, language) ==
    [Object |-> "block", Type |-> type, Content |-> content, Language |-> language]

RECURSIVE extractText(_, _)
RECURSIVE extractChildren(_, _)
\* the loop of extractText over the children cs (in document order) of a node
extractChildren(d, cs) ==
    IF cs = {} THEN <<>>
    ELSE LET c == CHOOSE j \in cs : \A k \in cs : j <= k
             piece == IF d[c].Type = "Text" THEN d[c].Text
                      ELSE IF d[c].Type = "Element" THEN extractText(d, c)
                      ELSE <<>>
         IN  piece \o extractChildren(d, cs \ {c})

extractText(d, n) ==
    IF d[n].Type = "Text" THEN TrimSpace(d[n].Text)
    ELSE IF d[n].Tag \in {"ul", "ol", "div"} THEN <<>>
    ELSE TrimSpace(extractChildren(d, Children(d, n)))

\* splitLoop without the remainder after the last full slice
RECURSIVE splitLoop_dropRemainder(_, _, _)
splitLoop_dropRemainder(text, maxLen, chunks) ==
    IF Len(text) > maxLen
    THEN splitLoop_dropRemainder(SubSeq(text, maxLen + 1, Len(text)), maxLen,
                                 Append(chunks, SubSeq(text, 1, maxLen)))
    ELSE chunks

RECURSIVE splitLoop(_, _, _)
splitLoop(text, maxLen, chunks) ==
    IF Len(text) > maxLen
    THEN splitLoop(SubSeq(text, maxLen + 1, Len(text)), maxLen,
                   Append(chunks, SubSeq(text, 1, maxLen)))
    ELSE IF Len(text) > 0 THEN Append(chunks, text) ELSE chunks

\* splitTextIntoChunks slicing one character too many
splitTextIntoChunks_offByOne(text, maxLen) ==
    IF Len(text) <= maxLen THEN <<text>> ELSE splitLoop(text, maxLen + 1, <<>>)

splitTextIntoChunks(text, maxLen) ==
    IF Len(text) <= maxLen THEN <<text>> ELSE splitLoop(text, maxLen, <<>>)

Ellipsis == <<".", ".", ".">>

\* truncateHeading leaving no room for the ellipsis
truncateHeading_noRoom(text) == SubSeq(text, 1, MaxBlockTextLength) \o Ellipsis

\* the heading truncation of convertNodeToBlocks
truncateHeading(text) == SubSeq(text, 1, MaxBlockTextLength - 3) \o Ellipsis

\* blockType with the case of blockquote missing
blockType_noQuote(tag) ==
    CASE tag = "h1" -> "heading_1"
      [] tag = "h2" -> "heading_2"
      [] tag = "h3" -> "heading_3"
      [] tag = "li" -> "bulleted_list_item"
      [] tag \in {"pre", "code"} -> "code"
      [] tag \in {"p", "blockquote"} -> "paragraph"
      [] OTHER -> ""

\* the block type the switch of convertNodeToBlocks gives a tag ("" : none)
blockType(tag) ==
    CASE tag = "h1" -> "heading_1"
      [] tag = "h2" -> "heading_2"
      [] tag = "h3" -> "heading_3"
      [] tag = "li" -> "bulleted_list_item"
      [] tag = "blockquote" -> "quote"
      [] tag \in {"pre", "code"} -> "code"
      [] tag = "p" -> "paragraph"
      [] OTHER -> ""

blockLanguage(tag) == IF tag \in {"pre", "code"} THEN "plain text" ELSE ""

\* textChunksOf cutting the text of pre and code as it cuts a heading
textChunksOf_truncateCode(d, n, text) ==
    LET cut == d[n].Tag \in {"h1", "h2", "h3", "pre", "code"}
        text2 == IF cut /\ Len(text) > MaxBlockTextLength
                 THEN truncateHeading(text) ELSE text
    IN  IF ~cut /\ Len(text2) > MaxBlockTextLength
        THEN splitTextIntoChunks(text2, MaxBlockTextLength)
        ELSE <<text2>>

\* the chunks convertNodeToBlocks makes of the extracted text of node n
textChunksOf(d, n, text) ==
    LET isHeading == d[n].Tag \in {"h1", "h2", "h3"}
        text2 == IF isHeading /\ Len(text) > MaxBlockTextLength
                 THEN truncateHeading(text) ELSE text
    IN  IF ~isHeading /\ Len(text2) > MaxBlockTextLength
        THEN splitTextIntoChunks(text2, MaxBlockTextLength)
        ELSE <<text2>>

\* convertNodeToBlocks without its return for an empty text
convertNodeToBlocks_noEmptyCheck(d, n) ==
    LET text == extractText(d, n)
        textChunks == textChunksOf(d, n, text)
    IN  IF d[n].Type = "Element" /\ blockType(d[n].Tag) # ""
        THEN [i \in 1..Len(textChunks) |->
                 Block(blockType(d[n].Tag), textChunks[i], blockLanguage(d[n].Tag))]
        ELSE <<>>

convertNodeToBlocks(d, n) ==
    LET text == extractText(d, n)
    IN  IF text = <<>> THEN <<>>
        ELSE LET textChunks == textChunksOf(d, n, text)
                 tag == d[n].Tag
             IN  IF d[n].Type = "Element" /\ blockType(tag) # ""
                 THEN [i \in 1..Len(textChunks) |->
                          Block(blockType(tag), textChunks[i], blockLanguage(tag))]
                 ELSE IF d[n].Type = "Element" /\ tag \in {"ul", "ol", "div"} THEN <<>>
                 ELSE IF d[n].Type = "Text" /\ TrimSpace(d[n].Text) # <<>>
                 THEN [i \in 1..Len(textChunks) |-> Block("paragraph", textChunks[i], "")]
                 ELSE <<>>

\* the placeholder HTMLToNotionBlocks returns for a document without blocks
emptyParagraph == Block("paragraph", <<>>, "")

\* no operation has returned yet / no page-creation response decoded yet
NoRet == [value |-> <<>>, err |-> "none"]
NoPage == [ID |-> "", URL |-> ""]

(***************************************************************************)
(* Inputs of the Export conversion.                                        *)
(***************************************************************************)
ExportTags == {"p", "h1", "h2", "h3", "li", "blockquote", "pre", "code", "ul", "div", "span"}

ExportTexts ==
    {<<" ">>, <<"a">>, <<" ", "b", " ">>}
    \cup {Pat(n) : n \in {MaxBlockTextLength, MaxBlockTextLength + 1,
                          2 * MaxBlockTextLength, 5000}}

\* <p>hello</p><h1>Title</h1>, the example of the design document
HelloTitleDoc ==
    DocOf(<<ElementNode("p", <<>>, 0), TextNode(<<"h", "e", "l", "l", "o">>, 1),
            ElementNode("h1", <<>>, 0), TextNode(<<"T", "i", "t", "l", "e">>, 3)>>)

\* an over-length heading next to an over-length paragraph
LongHeadingDoc ==
    DocOf(<<ElementNode("h1", <<>>, 0), TextNode(Pat(MaxBlockTextLength + 1), 1),
            ElementNode("p", <<>>, 0), TextNode(Pat(MaxBlockTextLength + 1), 3)>>)

\* <blockquote><p>a</p></blockquote>
NestedQuoteDoc ==
    DocOf(<<ElementNode("blockquote", <<>>, 0), ElementNode("p", <<>>, 1),
            TextNode(<<"a">>, 2)>>)

\* <p>a<span> b</span></p>
InlineSpaceDoc ==
    DocOf(<<ElementNode("p", <<>>, 0), TextNode(<<"a">>, 1),
            ElementNode("span", <<>>, 1), TextNode(<<" ", "b">>, 3)>>)

ExportSamples == {HelloTitleDoc, LongHeadingDoc, NestedQuoteDoc, InlineSpaceDoc}

ExportDocuments ==
    Documents({<<t, <<>>>> : t \in ExportTags}, ExportTexts, MaxNodes) \cup ExportSamples

SplitTexts == UNION {[1..n -> {"a", "b"}] : n \in 0..MaxTextLen}

\* the arguments of the chunk splitter: short texts with short limits, and
\* the long texts of the conversion with its limit
SplitInputs ==
    (SplitTexts \X (1..MaxChunkLen))
    \cup ((ExportTexts \cup {Pat(3 * MaxBlockTextLength)}) \X {MaxBlockTextLength})

(***************************************************************************)
(* HTMLToNotionBlocks: the closure f visits the nodes in document order.   *)
(***************************************************************************)
IdleSplit == spText = <<>> /\ spMax = 1 /\ spChunks = <<>> /\ spRest = <<>>
IdleAugment == result = <<>> /\ calls = <<>> /\ segs = <<>> /\ ctxDone = FALSE
IdleClient == pageResp = NoPage /\ requests = <<>> /\ apIdx = 0
IdleFurther ==
    /\ stText = <<>> /\ stIdx = 1
    /\ newPkg = "" /\ newConfig = [Provider |-> ""]
    /\ tcContent = <<>> /\ tcMax = 0
    /\ folders = {} /\ nextId = 1

InitExport ==
    /\ pc = "walk"
    /\ doc \in ExportDocuments
    /\ pos = 1
    /\ blocks = <<>>
    /\ origin = <<>>
    /\ ret = NoRet
    /\ IdleSplit /\ IdleAugment /\ IdleClient
    /\ IdleFurther

\* f(n) for an element node: convert it, then go on to its children
ExportElement ==
    /\ pc = "walk"
    /\ pos <= Len(doc)
    /\ doc[pos].Type = "Element"
    /\ LET nodeBlocks == convertNodeToBlocks(doc, pos)
       IN  /\ blocks' = blocks \o nodeBlocks
           /\ origin' = origin \o [i \in 1..Len(nodeBlocks) |-> pos]
    /\ pos' = pos + 1
    /\ UNCHANGED <<furtherVars, ctxDone, pc, doc, splitVars, augVars, clientVars, ret>>

\* f(n) for any other node: only go on to its children
ExportOther ==
    /\ pc = "walk"
    /\ pos <= Len(doc)
    /\ doc[pos].Type # "Element"
    /\ pos' = pos + 1
    /\ UNCHANGED <<furtherVars, ctxDone, pc, doc, exportVars, splitVars, augVars, clientVars, ret>>

\* after f(doc): the placeholder for an empty result, and the return
ExportReturn ==
    /\ pc = "walk"
    /\ pos = Len(doc) + 1
    /\ IF Len(blocks) = 0
       THEN /\ blocks' = <<emptyParagraph>>
            /\ origin' = <<0>>
       ELSE UNCHANGED <<blocks, origin>>
    /\ pc' = "returned"
    /\ ret' = [value |-> blocks', err |-> "nil"]
    /\ UNCHANGED <<furtherVars, ctxDone, doc, pos, splitVars, augVars, clientVars>>

NextExport == ExportElement \/ ExportOther \/ ExportReturn

SpecExport == InitExport /\ [][NextExport]_vars

(***************************************************************************)
(* splitTextIntoChunks as a function of its arguments.                     *)
(***************************************************************************)
IdleExport == doc = BaseDoc /\ pos = 1 /\ blocks = <<>> /\ origin = <<>>

InitSplit ==
    /\ pc = "split"
    /\ \E in \in SplitInputs : spText = in[1] /\ spMax = in[2]
    /\ spChunks = <<>>
    /\ spRest = <<>>
    /\ ret = NoRet
    /\ IdleExport /\ IdleAugment /\ IdleClient
    /\ IdleFurther

SplitCall ==
    /\ pc = "split"
    /\ spChunks' = splitTextIntoChunks(spText, spMax)
    /\ pc' = "splitDone"
    /\ UNCHANGED <<furtherVars, ctxDone, doc, pos, exportVars, spText, spMax, spRest, augVars, clientVars, ret>>

NextSplit == SplitCall

SpecSplit == InitSplit /\ [][NextSplit]_vars

(***************************************************************************)
(* translator/html_translator.go: serialization.                           *)
(***************************************************************************)
\* html.EscapeString
EscapeChar(c) ==
    CASE c = "&" -> <<"&", "a", "m", "p", ";">>
      [] c = "<" -> <<"&", "l", "t", ";">>
      [] c = ">" -> <<"&", "g", "t", ";">>
      [] c = "\"" -> <<"&", "#", "3", "4", ";">>
      [] c = "'" -> <<"&", "#", "3", "9", ";">>
      [] OTHER -> <<c>>

RECURSIVE EscapeString(_)
EscapeString(s) == IF s = <<>> THEN <<>> ELSE EscapeChar(Head(s)) \o EscapeString(Tail(s))

\* markup is a sequence of tokens: a start tag with its attributes (values
\* escaped), escaped character data, an end tag
OpenTok(tag, attr) == [kind |-> "open", tag |-> tag, attr |-> attr, text |-> <<>>]
TextTok(text) == [kind |-> "text", tag |-> "", attr |-> <<>>, text |-> text]
CloseTok(tag) == [kind |-> "close", tag |-> tag, attr |-> <<>>, text |-> <<>>]

EscapeAttrs(attr) == [i \in 1..Len(attr) |-> [Key |-> attr[i].Key, Val |-> EscapeString(attr[i].Val)]]

\* html.Render
RECURSIVE Render(_, _)
RECURSIVE RenderChildren(_, _)
RenderChildren(d, cs) ==
    IF cs = {} THEN <<>>
    ELSE LET c == CHOOSE j \in cs : \A k \in cs : j <= k
         IN  Render(d, c) \o RenderChildren(d, cs \ {c})

Render(d, n) ==
    IF d[n].Type = "Text" THEN <<TextTok(EscapeString(d[n].Text))>>
    ELSE IF d[n].Type = "Element"
    THEN <<OpenTok(d[n].Tag, EscapeAttrs(d[n].Attr))>>
         \o RenderChildren(d, Children(d, n)) \o <<CloseTok(d[n].Tag)>>
    ELSE RenderChildren(d, Children(d, n))

\* the markup whose parse is d: the serialization of the content of <body>
InputHTML(d) == RenderChildren(d, Children(d, BodyIdx))

isCodeBlock(d, n) ==
    d[n].Type = "Element" /\ d[n].Tag \in {"pre", "code", "kbd", "samp", "var"}

isTranslatableBlock(d, n) ==
    /\ d[n].Type = "Element"
    /\ d[n].Tag \in {"p", "div", "h1", "h2", "h3", "h4", "h5", "h6", "li",
                     "blockquote", "td", "th", "dd", "dt", "figcaption"}

\* htExtractText reading the text of code blocks too
RECURSIVE htExtractText_intoCode(_, _)
htExtractText_intoCode(d, n) ==
    IF d[n].Type = "Text" THEN d[n].Text
    ELSE LET cs == Children(d, n)
         IN  Concat([i \in 1..Cardinality(cs) |->
                 htExtractText_intoCode(d, CHOOSE j \in cs : Cardinality({k \in cs : k < j}) = i - 1)])

\* HTMLTranslator.extractText
RECURSIVE htExtractText(_, _)
RECURSIVE htExtractChildren(_, _)
htExtractChildren(d, cs) ==
    IF cs = {} THEN <<>>
    ELSE LET c == CHOOSE j \in cs : \A k \in cs : j <= k
         IN  htExtractText(d, c) \o htExtractChildren(d, cs \ {c})

htExtractText(d, n) ==
    IF d[n].Type = "Text" THEN d[n].Text
    ELSE IF isCodeBlock(d, n) THEN <<>>
    ELSE htExtractChildren(d, Children(d, n))

TranslationClass == [Key |-> "class", Val |-> <<"yarr-translation">>]
TranslationStyle == [Key |-> "style", Val |-> <<"color: #555; ...">>]

createTranslationElement(d, n, translatedText) ==
    <<OpenTok(d[n].Tag, EscapeAttrs(d[n].Attr) \o <<TranslationClass, TranslationStyle>>),
      TextTok(EscapeString(translatedText)),
      CloseTok(d[n].Tag)>>

(***************************************************************************)
(* Inputs of the Augmentation.                                             *)
(***************************************************************************)
IdAttr == <<[Key |-> "id", Val |-> <<"x", "&">>]>>

AugElems ==
    {<<t, <<>>>> : t \in {"p", "div", "li", "pre", "code", "kbd", "ul", "span"}}
    \cup {<<"p", IdAttr>>}

AugTexts == {<<"a">>, <<" ">>, <<" ", "&">>}

\* the examples of the design document, and blocks that hold opaque content
p0(tag, parent) == ElementNode(tag, <<>>, parent)
\* <div><pre>x</pre></div>
DivPreDoc == DocOf(<<p0("div", 0), p0("pre", 1), TextNode(<<"x">>, 2)>>)

\* <div><p>a</p></div>
NestedBlockDoc == DocOf(<<p0("div", 0), p0("p", 1), TextNode(<<"a">>, 2)>>)

AugSamples ==
    {DocOf(<<p0("pre", 0), TextNode(<<"x", "=", "1">>, 1)>>),
     DocOf(<<p0("pre", 0), TextNode(<<"x", "=", "1">>, 1), p0("p", 0),
             TextNode(<<"a", " ">>, 3), p0("code", 3), TextNode(<<"x">>, 5)>>),
     DocOf(<<p0("div", 0), p0("pre", 1), TextNode(<<"x">>, 2), TextNode(<<"a">>, 1)>>),
     DocOf(<<p0("ul", 0), p0("li", 1), TextNode(<<"a">>, 2), p0("li", 1), TextNode(<<"b">>, 4)>>),
     DivPreDoc,
     NestedBlockDoc}

AugDocuments == Documents(AugElems, AugTexts, MaxAugNodes) \cup AugSamples

\* what Translate can answer: an error, or a translated text
Translations == {<<"t">>, <<"<", "t">>}

(***************************************************************************)
(* TranslateHTML / traverseAndTranslate: a depth-first walk; an element    *)
(* the walk returns at is left by skipping its subtree.                    *)
(***************************************************************************)
\* SkipSubtree going on with the children of the node
SkipSubtree_intoChildren(d, n) == n + 1

SkipSubtree(d, n) == n + 1 + Cardinality(Descendants(d, n))

\* traverseAndTranslate handing the error of Translate to its caller
errAfterTranslateFailure_propagates == "translation failed"

\* the error traverseAndTranslate returns when Translate failed
errAfterTranslateFailure == "nil"

InitAugment ==
    /\ pc = "traverse"
    /\ doc \in AugDocuments
    /\ pos = 1
    /\ result = <<>>
    /\ calls = <<>>
    /\ segs = <<>>
    /\ ctxDone = FALSE
    /\ ret = NoRet
    /\ blocks = <<>> /\ origin = <<>>
    /\ IdleSplit /\ IdleClient
    /\ IdleFurther

\* a code block: written as it is, not descended into
AugCodeBlock ==
    /\ pc = "traverse"
    /\ pos <= Len(doc)
    /\ isCodeBlock(doc, pos)
    /\ result' = result \o Render(doc, pos)
    /\ segs' = Append(segs, [node |-> pos, kind |-> "code", out |-> Render(doc, pos)])
    /\ pos' = SkipSubtree(doc, pos)
    /\ UNCHANGED <<furtherVars, ctxDone, pc, doc, calls, exportVars, splitVars, clientVars, ret>>

\* a translatable block with text: written, then Translate is called
AugBlockCall ==
    /\ pc = "traverse"
    /\ pos <= Len(doc)
    /\ ~isCodeBlock(doc, pos)
    /\ isTranslatableBlock(doc, pos)
    /\ LET text == TrimSpace(htExtractText(doc, pos))
       IN  /\ text # <<>>
           /\ result' = result \o Render(doc, pos)
           /\ segs' = Append(segs, [node |-> pos, kind |-> "block", out |-> Render(doc, pos)])
           /\ calls' = Append(calls, [node |-> pos, text |-> text, outcome |-> "pending",
                                       ctxDone |-> ctxDone])
    /\ pc' = "translate"
    /\ UNCHANGED <<furtherVars, ctxDone, doc, pos, exportVars, splitVars, clientVars, ret>>

\* TranslateOk writing the translation element ahead of everything written
TranslateOk_siblingFirst ==
    /\ pc = "translate"
    /\ ~calls[Len(calls)].ctxDone
    /\ \E translated \in Translations :
          LET el == createTranslationElement(doc, pos, translated)
          IN  /\ result' = el \o result
              /\ segs' = [segs EXCEPT ![Len(segs)].out = el \o @]
    /\ calls' = [calls EXCEPT ![Len(calls)].outcome = "ok"]
    /\ pc' = "traverse"
    /\ pos' = SkipSubtree(doc, pos)
    /\ UNCHANGED <<furtherVars, ctxDone, doc, exportVars, splitVars, clientVars, ret>>

\* Translate answers with a text: the translation element is written
TranslateOk ==
    /\ pc = "translate"
    /\ ~calls[Len(calls)].ctxDone  \* a request made with a cancelled context fails
    /\ \E translated \in Translations :
          LET el == createTranslationElement(doc, pos, translated)
          IN  /\ result' = result \o el
              /\ segs' = [segs EXCEPT ![Len(segs)].out = @ \o el]
    /\ calls' = [calls EXCEPT ![Len(calls)].outcome = "ok"]
    /\ pc' = "traverse"
    /\ pos' = SkipSubtree(doc, pos)
    /\ UNCHANGED <<furtherVars, ctxDone, doc, exportVars, splitVars, clientVars, ret>>

\* TranslateErr writing an element with the untranslated text
TranslateErr_writesFallback ==
    /\ pc = "translate"
    /\ calls' = [calls EXCEPT ![Len(calls)].outcome = "err"]
    /\ LET el == createTranslationElement(doc, pos, calls[Len(calls)].text)
       IN  /\ result' = result \o el
           /\ segs' = [segs EXCEPT ![Len(segs)].out = @ \o el]
    /\ pc' = "traverse"
    /\ pos' = SkipSubtree(doc, pos)
    /\ UNCHANGED <<furtherVars, ctxDone, doc, exportVars, splitVars, clientVars, ret>>

\* Translate answers with an error: the block is left as written
TranslateErr ==
    /\ pc = "translate"
    /\ calls' = [calls EXCEPT ![Len(calls)].outcome = "err"]
    /\ IF errAfterTranslateFailure = "nil"
       THEN /\ pc' = "traverse"
            /\ pos' = SkipSubtree(doc, pos)
            /\ UNCHANGED ret
       ELSE \* the error goes up through every enclosing call to TranslateHTML
            /\ pc' = "returned"
            /\ ret' = [value |-> <<>>, err |-> errAfterTranslateFailure]
            /\ UNCHANGED pos
    /\ UNCHANGED <<furtherVars, ctxDone, doc, result, segs, exportVars, splitVars, clientVars>>

\* a translatable block without text: nothing is written, the walk returns
AugBlockEmpty ==
    /\ pc = "traverse"
    /\ pos <= Len(doc)
    /\ ~isCodeBlock(doc, pos)
    /\ isTranslatableBlock(doc, pos)
    /\ TrimSpace(htExtractText(doc, pos)) = <<>>
    /\ pos' = SkipSubtree(doc, pos)
    /\ UNCHANGED <<furtherVars, ctxDone, pc, doc, augVars, exportVars, splitVars, clientVars, ret>>

\* any other node: the walk goes on to its children
AugDescend ==
    /\ pc = "traverse"
    /\ pos <= Len(doc)
    /\ ~isCodeBlock(doc, pos)
    /\ ~isTranslatableBlock(doc, pos)
    /\ pos' = pos + 1
    /\ UNCHANGED <<furtherVars, ctxDone, pc, doc, augVars, exportVars, splitVars, clientVars, ret>>

\* the walk is over: TranslateHTML returns the builder's content
AugReturn ==
    /\ pc = "traverse"
    /\ pos > Len(doc)
    /\ pc' = "returned"
    /\ ret' = [value |-> result, err |-> "nil"]
    /\ UNCHANGED <<furtherVars, ctxDone, doc, pos, augVars, exportVars, splitVars, clientVars>>

NextAugment ==
    \/ AugCodeBlock \/ AugBlockCall \/ TranslateOk \/ TranslateErr
    \/ AugBlockEmpty \/ AugDescend \/ AugReturn

SpecAugment == InitAugment /\ [][NextAugment]_vars

\* the caller cancels the context it gave NewHTMLTranslator
CancelContext ==
    /\ pc \in {"traverse", "translate"}
    /\ ~ctxDone
    /\ ctxDone' = TRUE
    /\ UNCHANGED <<furtherVars, pc, doc, pos, exportVars, splitVars, augVars, clientVars, ret>>

\* the Augmentation with a caller that may cancel at any moment
NextAugmentCtx == NextAugment \/ CancelContext
SpecAugmentCtx == InitAugment /\ [][NextAugmentCtx]_vars

(***************************************************************************)
(* translator.HTMLTranslator.translateSimpleText, the fallback for text    *)
(* that is not parsed: paragraphs are separated by an empty line.          *)
(***************************************************************************)
\* strings.Index, counted from 1: the first place of sep in s, 0 if none
IndexOf(s, sep) ==
    LET hits == {i \in 1..(Len(s) - Len(sep) + 1) : SubSeq(s, i, i + Len(sep) - 1) = sep}
    IN  IF hits = {} THEN 0 ELSE CHOOSE i \in hits : \A j \in hits : i <= j

\* strings.Split for a non-empty separator
RECURSIVE Split(_, _)
Split(s, sep) ==
    LET i == IndexOf(s, sep)
    IN  IF i = 0 THEN <<s>>
        ELSE <<SubSeq(s, 1, i - 1)>> \o Split(SubSeq(s, i + Len(sep), Len(s)), sep)

HasPrefix(s, prefix) == Len(s) >= Len(prefix) /\ SubSeq(s, 1, Len(prefix)) = prefix

\* regexp.MatchString of the pattern ^[a-zA-Z_][a-zA-Z0-9_]*\s*[=({]
matchCodePattern(line) ==
    LET IdentStart ==
            {"a", "b", "c", "d", "e", "f", "g", "h", "i", "j", "k", "l", "m", "n", "o",
             "p", "q", "r", "s", "t", "u", "v", "w", "x", "y", "z", "A", "B", "C", "D",
             "E", "F", "G", "H", "I", "J", "K", "L", "M", "N", "O", "P", "Q", "R", "S",
             "T", "U", "V", "W", "X", "Y", "Z", "_"}
        IdentChar == IdentStart \cup {"0", "1", "2", "3", "4", "5", "6", "7", "8", "9"}
        RegexSpace == {"\t", "\n", "\f", "\r", " "}
        CodeMarker == {"=", "(", "{"}
    IN  /\ Len(line) >= 2
        /\ line[1] \in IdentStart
        /\ \E i \in 1..(Len(line) - 1) : \E j \in i..(Len(line) - 1) :
              /\ \A k \in 2..i : line[k] \in IdentChar
              /\ \A k \in (i + 1)..j : line[k] \in RegexSpace
              /\ line[j + 1] \in CodeMarker

looksLikeCode(text) ==
    LET lines == Split(text, <<"\n">>)
        indented == {i \in 1..Len(lines) :
                        HasPrefix(lines[i], <<" ", " ", " ", " ">>) \/ HasPrefix(lines[i], <<"\t">>)}
        patterned == {i \in 1..Len(lines) : matchCodePattern(lines[i])}
        codeLineCount == Cardinality(indented) + Cardinality(patterned)
    IN  codeLineCount > Len(lines) \div 2

ParagraphBreak == <<"\n", "\n">>
Paragraphs == Split(stText, ParagraphBreak)

\* what is written ahead of a translation
TranslationMark == <<"[", "U+8BD1", "]", " ">>

SimpleAlphabet == {" ", "\t", "\n", "x", "="}
SimpleTexts == UNION {[1..n -> SimpleAlphabet] : n \in 0..MaxSimpleLen}

InitSimpleText ==
    /\ pc = "simple"
    /\ stText \in SimpleTexts
    /\ stIdx = 1
    /\ doc = BaseDoc /\ pos = 1 /\ blocks = <<>> /\ origin = <<>>
    /\ IdleSplit /\ IdleAugment /\ IdleClient
    /\ newPkg = "" /\ newConfig = [Provider |-> ""]
    /\ tcContent = <<>> /\ tcMax = 0
    /\ folders = {} /\ nextId = 1
    /\ ret = NoRet

\* a paragraph that is empty once trimmed is passed over
SimpleSkip ==
    /\ pc = "simple"
    /\ stIdx <= Len(Paragraphs)
    /\ TrimSpace(Paragraphs[stIdx]) = <<>>
    /\ stIdx' = stIdx + 1
    /\ UNCHANGED <<stText, newPkg, newConfig, tcContent, tcMax, folders, nextId, ctxDone, pc, doc, pos, exportVars, splitVars, augVars, clientVars, ret>>

\* a paragraph that looks like code is written and not translated
SimpleCode ==
    /\ pc = "simple"
    /\ stIdx <= Len(Paragraphs)
    /\ LET para == TrimSpace(Paragraphs[stIdx])
       IN  /\ para # <<>>
           /\ looksLikeCode(para)
           /\ result' = result \o para \o ParagraphBreak
    /\ stIdx' = stIdx + 1
    /\ UNCHANGED <<stText, newPkg, newConfig, tcContent, tcMax, folders, nextId, ctxDone, pc, doc, pos, exportVars, splitVars, calls, segs, clientVars, ret>>

\* any other paragraph is written, then Translate is called
SimpleCall ==
    /\ pc = "simple"
    /\ stIdx <= Len(Paragraphs)
    /\ LET para == TrimSpace(Paragraphs[stIdx])
       IN  /\ para # <<>>
           /\ ~looksLikeCode(para)
           /\ result' = result \o para \o ParagraphBreak
           /\ calls' = Append(calls, [node |-> stIdx, text |-> para, outcome |-> "pending",
                                       ctxDone |-> ctxDone])
    /\ pc' = "simpleTranslate"
    /\ UNCHANGED <<stText, stIdx, newPkg, newConfig, tcContent, tcMax, folders, nextId, ctxDone, doc, pos, exportVars, splitVars, segs, clientVars, ret>>

\* Translate answers with a text: the marked translation is written
SimpleTranslateOk ==
    /\ pc = "simpleTranslate"
    /\ \E translated \in Translations :
          result' = result \o TranslationMark \o translated \o ParagraphBreak
    /\ calls' = [calls EXCEPT ![Len(calls)].outcome = "ok"]
    /\ stIdx' = stIdx + 1
    /\ pc' = "simple"
    /\ UNCHANGED <<stText, newPkg, newConfig, tcContent, tcMax, folders, nextId, ctxDone, doc, pos, exportVars, splitVars, segs, clientVars, ret>>

\* Translate answers with an error: nothing more is written
SimpleTranslateErr ==
    /\ pc = "simpleTranslate"
    /\ calls' = [calls EXCEPT ![Len(calls)].outcome = "err"]
    /\ stIdx' = stIdx + 1
    /\ pc' = "simple"
    /\ UNCHANGED <<stText, newPkg, newConfig, tcContent, tcMax, folders, nextId, ctxDone, doc, pos, exportVars, splitVars, result, segs, clientVars, ret>>

SimpleReturn ==
    /\ pc = "simple"
    /\ stIdx > Len(Paragraphs)
    /\ ret' = [value |-> result, err |-> "nil"]
    /\ pc' = "returned"
    /\ UNCHANGED <<stText, stIdx, newPkg, newConfig, tcContent, tcMax, folders, nextId, ctxDone, doc, pos, exportVars, splitVars, augVars, clientVars>>

NextSimpleText ==
    \/ SimpleSkip \/ SimpleCode \/ SimpleCall
    \/ SimpleTranslateOk \/ SimpleTranslateErr \/ SimpleReturn

SpecSimpleText == InitSimpleText /\ [][NextSimpleText]_vars

(***************************************************************************)
(* translator.New and summarizer.New.                                      *)
(***************************************************************************)
NilInstance == [type |-> "nil"]
NilError == [wraps |-> "nil", msg |-> ""]

\* fmt.Errorf("%w: ...", sentinel)
Wrap(sentinel, msg) == [wraps |-> sentinel, msg |-> msg]

\* translator.New losing the default model of ollama
translatorNew_noDefaultModel(config) ==
    LET lang == IF config.TargetLang = "" THEN "zh-CN" ELSE config.TargetLang
    IN  CASE config.Provider = "gemini" ->
               IF config.APIKey = ""
               THEN [value |-> NilInstance,
                     err |-> Wrap("ErrProviderNotConfigured", "Gemini API key not set")]
               ELSE [value |-> [type |-> "GeminiTranslator", APIKey |-> config.APIKey,
                                TargetLang |-> lang],
                     err |-> NilError]
          [] config.Provider = "ollama" ->
               IF config.URL = ""
               THEN [value |-> NilInstance,
                     err |-> Wrap("ErrProviderNotConfigured", "Ollama URL not set")]
               ELSE [value |-> [type |-> "OllamaTranslator", URL |-> config.URL,
                                Model |-> config.Model,
                                TargetLang |-> lang],
                     err |-> NilError]
          [] config.Provider = "google" ->
               [value |-> [type |-> "GoogleTranslator", TargetLang |-> lang], err |-> NilError]
          [] config.Provider = "microsoft" ->
               IF config.APIKey = ""
               THEN [value |-> NilInstance,
                     err |-> Wrap("ErrProviderNotConfigured",
                                  "Microsoft Translator API key not set")]
               ELSE [value |-> [type |-> "MicrosoftTranslator", APIKey |-> config.APIKey,
                                TargetLang |-> lang],
                     err |-> NilError]
          [] config.Provider \in {"disabled", ""} ->
               [value |-> NilInstance,
                err |-> Wrap("ErrProviderNotConfigured", "translation provider is disabled")]
          [] OTHER ->
               [value |-> NilInstance, err |-> Wrap("ErrProviderNotSupported", config.Provider)]

translatorNew(config) ==
    LET lang == IF config.TargetLang = "" THEN "zh-CN" ELSE config.TargetLang
    IN  CASE config.Provider = "gemini" ->
               IF config.APIKey = ""
               THEN [value |-> NilInstance,
                     err |-> Wrap("ErrProviderNotConfigured", "Gemini API key not set")]
               ELSE [value |-> [type |-> "GeminiTranslator", APIKey |-> config.APIKey,
                                TargetLang |-> lang],
                     err |-> NilError]
          [] config.Provider = "ollama" ->
               IF config.URL = ""
               THEN [value |-> NilInstance,
                     err |-> Wrap("ErrProviderNotConfigured", "Ollama URL not set")]
               ELSE [value |-> [type |-> "OllamaTranslator", URL |-> config.URL,
                                Model |-> IF config.Model = "" THEN "qwen2:4b"
                                          ELSE config.Model,
                                TargetLang |-> lang],
                     err |-> NilError]
          [] config.Provider = "google" ->
               [value |-> [type |-> "GoogleTranslator", TargetLang |-> lang], err |-> NilError]
          [] config.Provider = "microsoft" ->
               IF config.APIKey = ""
               THEN [value |-> NilInstance,
                     err |-> Wrap("ErrProviderNotConfigured",
                                  "Microsoft Translator API key not set")]
               ELSE [value |-> [type |-> "MicrosoftTranslator", APIKey |-> config.APIKey,
                                TargetLang |-> lang],
                     err |-> NilError]
          [] config.Provider \in {"disabled", ""} ->
               [value |-> NilInstance,
                err |-> Wrap("ErrProviderNotConfigured", "translation provider is disabled")]
          [] OTHER ->
               [value |-> NilInstance, err |-> Wrap("ErrProviderNotSupported", config.Provider)]

summarizerNew(config) ==
    CASE config.Provider = "gemini" ->
           IF config.GeminiAPIKey = ""
           THEN [value |-> NilInstance,
                 err |-> Wrap("ErrProviderNotConfigured", "Gemini API key not set")]
           ELSE [value |-> [type |-> "GeminiSummarizer", APIKey |-> config.GeminiAPIKey],
                 err |-> NilError]
      [] config.Provider = "ollama" ->
           IF config.OllamaURL = ""
           THEN [value |-> NilInstance,
                 err |-> Wrap("ErrProviderNotConfigured", "Ollama URL not set")]
           ELSE [value |-> [type |-> "OllamaSummarizer", URL |-> config.OllamaURL,
                            Model |-> IF config.OllamaModel = "" THEN "qwen2:4b"
                                      ELSE config.OllamaModel],
                 err |-> NilError]
      [] config.Provider \in {"disabled", ""} ->
           [value |-> NilInstance,
            err |-> Wrap("ErrProviderNotConfigured", "AI provider is disabled")]
      [] OTHER ->
           [value |-> NilInstance, err |-> Wrap("ErrProviderNotSupported", config.Provider)]

ProviderNames == {"gemini", "ollama", "google", "microsoft", "disabled", "", "openai"}

TranslatorConfigs ==
    [Provider : ProviderNames, APIKey : {"", "key"}, URL : {"", "http://localhost:11434"},
     Model : {"", "llama3"}, TargetLang : {"", "en"}]
SummarizerConfigs ==
    [Provider : ProviderNames, GeminiAPIKey : {"", "key"},
     OllamaURL : {"", "http://localhost:11434"}, OllamaModel : {"", "llama3"}]

InitNew ==
    /\ pc = "new"
    /\ \/ newPkg = "translator" /\ newConfig \in TranslatorConfigs
       \/ newPkg = "summarizer" /\ newConfig \in SummarizerConfigs
    /\ doc = BaseDoc /\ pos = 1 /\ blocks = <<>> /\ origin = <<>>
    /\ IdleSplit /\ IdleAugment /\ IdleClient
    /\ stText = <<>> /\ stIdx = 1
    /\ tcContent = <<>> /\ tcMax = 0
    /\ folders = {} /\ nextId = 1
    /\ ret = NoRet

TranslatorNew ==
    /\ pc = "new"
    /\ newPkg = "translator"
    /\ ret' = translatorNew(newConfig)
    /\ pc' = "newDone"
    /\ UNCHANGED <<furtherVars, ctxDone, doc, pos, exportVars, splitVars, augVars, clientVars>>

SummarizerNew ==
    /\ pc = "new"
    /\ newPkg = "summarizer"
    /\ ret' = summarizerNew(newConfig)
    /\ pc' = "newDone"
    /\ UNCHANGED <<furtherVars, ctxDone, doc, pos, exportVars, splitVars, augVars, clientVars>>

NextNew == TranslatorNew \/ SummarizerNew

SpecNew == InitNew /\ [][NextNew]_vars

(***************************************************************************)
(* truncateContent of the summarizer and of the translator (the same code) *)
(***************************************************************************)
truncateContent(content, maxLen) ==
    IF Len(content) <= maxLen THEN content
    ELSE SubSeq(content, 1, maxLen) \o Ellipsis

\* the arguments: short contents with short limits, and contents around
\* the limit of Summarize
TruncateInputs ==
    (SplitTexts \X (0..MaxChunkLen))
    \cup {<<Pat(maxContentLength), maxContentLength>>,
          <<Pat(maxContentLength + 1), maxContentLength>>}

InitTruncate ==
    /\ pc = "truncate"
    /\ \E in \in TruncateInputs : tcContent = in[1] /\ tcMax = in[2]
    /\ doc = BaseDoc /\ pos = 1 /\ blocks = <<>> /\ origin = <<>>
    /\ IdleSplit /\ IdleAugment /\ IdleClient
    /\ stText = <<>> /\ stIdx = 1
    /\ newPkg = "" /\ newConfig = [Provider |-> ""]
    /\ folders = {} /\ nextId = 1
    /\ ret = NoRet

TruncateCall ==
    /\ pc = "truncate"
    /\ ret' = [value |-> truncateContent(tcContent, tcMax), err |-> "nil"]
    /\ pc' = "truncateDone"
    /\ UNCHANGED <<furtherVars, ctxDone, doc, pos, exportVars, splitVars, augVars, clientVars>>

SpecTruncate == InitTruncate /\ [][TruncateCall]_vars

(***************************************************************************)
(* storage: the table folders and the calls that write it.  A row is a     *)
(* Folder; the statements name its columns id, parent_id, title and        *)
(* is_expanded, and title as the column an insert can conflict on.         *)
(***************************************************************************)
NilFolder == [Id |-> 0, ParentId |-> 0, Title |-> "", IsExpanded |-> FALSE]

FolderTitles == {"a", "b"}
FolderIds == 1..MaxFolders
\* 0 is the nil parent_id
ParentIds == {0} \cup FolderIds

Folder(id, parentId, title, isExpanded) ==
    [Id |-> id, ParentId |-> parentId, Title |-> title, IsExpanded |-> isExpanded]

RowsWithTitle(title) == {f \in folders : f.Title = title}
RowsWithId(id) == {f \in folders : f.Id = id}

\* update folders set ... where id = ?
UpdateWhereId(rows, id, column, value) ==
    {IF f.Id = id THEN [f EXCEPT ![column] = value] ELSE f : f \in rows}

StorageCalls ==
    {"open", "CreateFolder", "DeleteFolder", "RenameFolder", "ToggleFolderExpanded",
     "UpdateFolderParent"}

InitStorage ==
    /\ pc = "open"
    /\ folders = {}
    /\ nextId = 1
    /\ doc = BaseDoc /\ pos = 1 /\ blocks = <<>> /\ origin = <<>>
    /\ IdleSplit /\ IdleAugment /\ IdleClient
    /\ stText = <<>> /\ stIdx = 1
    /\ newPkg = "" /\ newConfig = [Provider |-> ""]
    /\ tcContent = <<>> /\ tcMax = 0
    /\ ret = NoRet

\* the insert finds no row with the title: a row is added
CreateFolderInserts ==
    /\ pc \in StorageCalls
    /\ nextId <= MaxFolders
    /\ \E title \in FolderTitles, parentId \in ParentIds :
          /\ RowsWithTitle(title) = {}
          /\ folders' = folders \cup {Folder(nextId, parentId, title, TRUE)}
          /\ ret' = [value |-> Folder(nextId, parentId, title, TRUE), err |-> "nil"]
    /\ nextId' = nextId + 1
    /\ pc' = "CreateFolder"
    /\ UNCHANGED <<stText, stIdx, newPkg, newConfig, tcContent, tcMax, ctxDone, doc, pos, exportVars, splitVars,
                   augVars, clientVars>>

\* the insert conflicts on the title: title and parent_id of the row that
\* is there are set, and its id is returned
CreateFolderUpdates ==
    /\ pc \in StorageCalls
    /\ \E title \in FolderTitles, parentId \in ParentIds :
          /\ RowsWithTitle(title) # {}
          /\ LET row == CHOOSE f \in RowsWithTitle(title) : TRUE
             IN  /\ folders' = UpdateWhereId(UpdateWhereId(folders, row.Id, "Title", title),
                                             row.Id, "ParentId", parentId)
                 /\ ret' = [value |-> Folder(row.Id, parentId, title, TRUE), err |-> "nil"]
    /\ pc' = "CreateFolder"
    /\ UNCHANGED <<stText, stIdx, newPkg, newConfig, tcContent, tcMax, nextId, ctxDone, doc, pos, exportVars,
                   splitVars, augVars, clientVars>>

\* the statement fails: nil is returned
CreateFolderFails ==
    /\ pc \in StorageCalls
    /\ ret' = [value |-> NilFolder, err |-> "nil"]
    /\ pc' = "CreateFolder"
    /\ UNCHANGED <<furtherVars, ctxDone, doc, pos, exportVars, splitVars, augVars, clientVars>>

DeleteFolder ==
    /\ pc \in StorageCalls
    /\ \E folderId \in FolderIds :
          folders' = folders \ RowsWithId(folderId)
    /\ ret' = [value |-> TRUE, err |-> "nil"]
    /\ pc' = "DeleteFolder"
    /\ UNCHANGED <<stText, stIdx, newPkg, newConfig, tcContent, tcMax, nextId, ctxDone, doc, pos, exportVars,
                   splitVars, augVars, clientVars>>

\* a title another row has makes the update fail
RenameFolder ==
    /\ pc \in StorageCalls
    /\ \E folderId \in FolderIds, newTitle \in FolderTitles :
          LET taken == \E f \in RowsWithTitle(newTitle) : f.Id # folderId
          IN  IF RowsWithId(folderId) # {} /\ taken
              THEN folders' = folders /\ ret' = [value |-> FALSE, err |-> "nil"]
              ELSE folders' = UpdateWhereId(folders, folderId, "Title", newTitle)
                   /\ ret' = [value |-> TRUE, err |-> "nil"]
    /\ pc' = "RenameFolder"
    /\ UNCHANGED <<stText, stIdx, newPkg, newConfig, tcContent, tcMax, nextId, ctxDone, doc, pos, exportVars,
                   splitVars, augVars, clientVars>>

ToggleFolderExpanded ==
    /\ pc \in StorageCalls
    /\ \E folderId \in FolderIds, isExpanded \in BOOLEAN :
          folders' = UpdateWhereId(folders, folderId, "IsExpanded", isExpanded)
    /\ ret' = [value |-> TRUE, err |-> "nil"]
    /\ pc' = "ToggleFolderExpanded"
    /\ UNCHANGED <<stText, stIdx, newPkg, newConfig, tcContent, tcMax, nextId, ctxDone, doc, pos, exportVars,
                   splitVars, augVars, clientVars>>

UpdateFolderParent ==
    /\ pc \in StorageCalls
    /\ \E folderId \in FolderIds, parentId \in ParentIds :
          folders' = UpdateWhereId(folders, folderId, "ParentId", parentId)
    /\ ret' = [value |-> TRUE, err |-> "nil"]
    /\ pc' = "UpdateFolderParent"
    /\ UNCHANGED <<stText, stIdx, newPkg, newConfig, tcContent, tcMax, nextId, ctxDone, doc, pos, exportVars,
                   splitVars, augVars, clientVars>>

NextStorage ==
    \/ CreateFolderInserts \/ CreateFolderUpdates \/ CreateFolderFails
    \/ DeleteFolder \/ RenameFolder \/ ToggleFolderExpanded \/ UpdateFolderParent

SpecStorage == InitStorage /\ [][NextStorage]_vars

(***************************************************************************)
(* notion/client.go: CreatePage and appendBlocks, from the point where     *)
(* HTMLToNotionBlocks has returned the blocks.                             *)
(***************************************************************************)
Digit == <<"0", "1", "2", "3", "4", "5", "6", "7", "8", "9">>

RECURSIVE Decimal(_)
Decimal(n) == IF n < 10 THEN <<Digit[n + 1]>> ELSE Append(Decimal(n \div 10), Digit[(n % 10) + 1])

\* the conversion result for a document of n paragraphs, each with its number
ParagraphBlocks(n) == [i \in 1..n |-> Block("paragraph", Decimal(i), "")]

\* how the page-creation request can fail
CreateFailures == {"transport", "read", "status", "decode"}

PageOf(id) == [ID |-> id, URL |-> "https://www.notion.so/" \o id]
PageIDs == {"page1", "page2"}

\* a request as the API saw it, and whether the API accepted it
Request(kind, page, children, ok) ==
    [kind |-> kind, page |-> page, children |-> children, ok |-> ok]

\* Children of the page-creation request
initialBlocks(bs) ==
    IF Len(bs) > maxBlocksPerRequest THEN SubSeq(bs, 1, maxBlocksPerRequest) ELSE bs

\* remainingBlocks starting one block early
remainingBlocks_overlap(bs) == SubSeq(bs, maxBlocksPerRequest, Len(bs))

\* the blocks handed to appendBlocks
remainingBlocks(bs) == SubSeq(bs, maxBlocksPerRequest + 1, Len(bs))

\* the batch appendBlocks sends at loop index i
appendBatch(bs, i) ==
    LET end == IF i + maxBlocksPerRequest > Len(bs) THEN Len(bs) ELSE i + maxBlocksPerRequest
    IN  SubSeq(bs, i + 1, end)

\* appendFailureResult without the URL of the page
appendFailureResult_noURL(page) == [value |-> "", err |-> "page created but failed to append"]

\* what CreatePage returns when appendBlocks failed
appendFailureResult(page) == [value |-> page.URL, err |-> "page created but failed to append"]

InitCreatePage ==
    /\ pc = "create"
    /\ \E n \in 1..MaxBlockCount : blocks = ParagraphBlocks(n)
    /\ origin = <<>>
    /\ pageResp = NoPage
    /\ requests = <<>>
    /\ apIdx = 0
    /\ ret = NoRet
    /\ doc = BaseDoc /\ pos = 1
    /\ IdleSplit /\ IdleAugment
    /\ IdleFurther

\* CreateFails going on to the append loop after a refused creation
CreateFails_goesOn ==
    /\ pc = "create"
    /\ requests' = Append(requests, Request("create", "", initialBlocks(blocks), FALSE))
    /\ IF Len(blocks) > maxBlocksPerRequest
       THEN pc' = "append" /\ UNCHANGED ret
       ELSE pc' = "returned" /\ ret' = [value |-> "", err |-> "nil"]
    /\ UNCHANGED <<furtherVars, ctxDone, doc, pos, exportVars, splitVars, augVars, pageResp, apIdx>>

\* the page-creation request fails: CreatePage returns the error
CreateFails ==
    /\ pc = "create"
    /\ requests' = Append(requests, Request("create", "", initialBlocks(blocks), FALSE))
    /\ \E f \in CreateFailures : ret' = [value |-> "", err |-> "ErrAPICallFailed: " \o f]
    /\ pc' = "returned"
    /\ UNCHANGED <<furtherVars, ctxDone, doc, pos, exportVars, splitVars, augVars, pageResp, apIdx>>

\* the page-creation request succeeds
CreateSucceeds ==
    /\ pc = "create"
    /\ requests' = Append(requests, Request("create", "", initialBlocks(blocks), TRUE))
    /\ \E id \in PageIDs :
          /\ pageResp' = PageOf(id)
          /\ IF Len(blocks) > maxBlocksPerRequest
             THEN pc' = "append" /\ UNCHANGED ret
             ELSE pc' = "returned" /\ ret' = [value |-> PageOf(id).URL, err |-> "nil"]
    /\ apIdx' = 0
    /\ UNCHANGED <<furtherVars, ctxDone, doc, pos, exportVars, splitVars, augVars>>

\* appendBlocks: one batch is sent and accepted
AppendSucceeds ==
    /\ pc = "append"
    /\ apIdx < Len(remainingBlocks(blocks))
    /\ requests' = Append(requests, Request("append", pageResp.ID,
                                             appendBatch(remainingBlocks(blocks), apIdx), TRUE))
    /\ apIdx' = apIdx + maxBlocksPerRequest
    /\ UNCHANGED <<furtherVars, ctxDone, pc, doc, pos, exportVars, splitVars, augVars, pageResp, ret>>

\* appendBlocks: one batch is sent and refused
AppendFails ==
    /\ pc = "append"
    /\ apIdx < Len(remainingBlocks(blocks))
    /\ requests' = Append(requests, Request("append", pageResp.ID,
                                             appendBatch(remainingBlocks(blocks), apIdx), FALSE))
    /\ ret' = appendFailureResult(pageResp)
    /\ pc' = "returned"
    /\ UNCHANGED <<furtherVars, ctxDone, doc, pos, exportVars, splitVars, augVars, pageResp, apIdx>>

\* appendBlocks has sent every batch: CreatePage returns the URL
AppendDone ==
    /\ pc = "append"
    /\ apIdx >= Len(remainingBlocks(blocks))
    /\ ret' = [value |-> pageResp.URL, err |-> "nil"]
    /\ pc' = "returned"
    /\ UNCHANGED <<furtherVars, ctxDone, doc, pos, exportVars, splitVars, augVars, clientVars>>

NextCreatePage ==
    CreateFails \/ CreateSucceeds \/ AppendSucceeds \/ AppendFails \/ AppendDone

SpecCreatePage == InitCreatePage /\ [][NextCreatePage]_vars

\* the chunk splitter alone and inside the conversion
(***************************************************************************)
(* splitTextIntoChunks, statement by statement.                            *)
(***************************************************************************)
InitSplitLoop ==
    /\ pc = "splitEntry"
    /\ spText \in SplitTexts
    /\ spMax \in 0..MaxChunkLen
    /\ spChunks = <<>>
    /\ spRest = <<>>
    /\ ret = NoRet
    /\ IdleExport /\ IdleAugment /\ IdleClient
    /\ IdleFurther

\* the early return for a text within the limit, else the empty chunk list
SplitEnter ==
    /\ pc = "splitEntry"
    /\ IF Len(spText) <= spMax
       THEN spChunks' = <<spText>> /\ pc' = "splitDone" /\ UNCHANGED spRest
       ELSE spChunks' = <<>> /\ spRest' = spText /\ pc' = "splitLoop"
    /\ UNCHANGED <<furtherVars, ctxDone, doc, pos, exportVars, spText, spMax, augVars, clientVars, ret>>

\* one pass of the loop
SplitIterate ==
    /\ pc = "splitLoop"
    /\ Len(spRest) > spMax
    /\ Len(spChunks) < MaxIterations
    /\ spChunks' = Append(spChunks, SubSeq(spRest, 1, spMax))
    /\ spRest' = SubSeq(spRest, spMax + 1, Len(spRest))
    /\ UNCHANGED <<furtherVars, ctxDone, pc, doc, pos, exportVars, spText, spMax, augVars, clientVars, ret>>

\* the loop is left: what remains is the last chunk
SplitExit ==
    /\ pc = "splitLoop"
    /\ Len(spRest) <= spMax
    /\ spChunks' = IF Len(spRest) > 0 THEN Append(spChunks, spRest) ELSE spChunks
    /\ pc' = "splitDone"
    /\ UNCHANGED <<furtherVars, ctxDone, doc, pos, exportVars, spText, spMax, spRest, augVars, clientVars, ret>>

NextSplitLoop == SplitEnter \/ SplitIterate \/ SplitExit

SpecSplitLoop == InitSplitLoop /\ [][NextSplitLoop]_vars

InitChunk == InitSplit \/ InitExport
NextChunk == SplitCall \/ ExportElement \/ ExportOther \/ ExportReturn
SpecChunk == InitChunk /\ [][NextChunk]_vars

(***************************************************************************)
(* Properties of the Export conversion.                                    *)
(***************************************************************************)
CeilDiv(a, b) == (a + b - 1) \div b

\* the content of the blocks that node n produced, in the order of blocks
RECURSIVE ContentsFrom(_, _)
ContentsFrom(n, k) ==
    IF k > Len(blocks) THEN <<>>
    ELSE (IF origin[k] = n THEN <<blocks[k].Content>> ELSE <<>>) \o ContentsFrom(n, k + 1)

TypesFrom(n) == {blocks[k].Type : k \in {j \in 1..Len(blocks) : origin[j] = n}}

\* the elements the walk has converted so far
Converted == {n \in 1..(pos - 1) : doc[n].Type = "Element"}

\* chunks is text cut into slices of maxLen with a non-empty rest
ChunksOf(text, maxLen, chunks) ==
    IF Len(text) <= maxLen THEN chunks = <<text>>
    ELSE /\ Len(chunks) = CeilDiv(Len(text), maxLen)
         /\ \A i \in 1..(Len(chunks) - 1) : Len(chunks[i]) = maxLen
         /\ Len(chunks[Len(chunks)]) \in 1..maxLen
         /\ Concat(chunks) = text

\* C1: every block the conversion has emitted, of a heading or not, carries
\* a text of at most MaxBlockTextLength characters
C1_BlockTextBounded ==
    \A k \in 1..Len(blocks) : Len(blocks[k].Content) <= MaxBlockTextLength

\* the conversion returned a full-length chunk of an over-length paragraph
\* and the cut text of an over-length heading
C1_Witness ==
    /\ pc = "returned"
    /\ \E k \in 1..Len(blocks) :
          /\ blocks[k].Type = "paragraph"
          /\ Len(blocks[k].Content) = MaxBlockTextLength
          /\ Len(extractText(doc, origin[k])) > MaxBlockTextLength
    /\ \E k \in 1..Len(blocks) :
          /\ blocks[k].Type = "heading_1"
          /\ Len(extractText(doc, origin[k])) > MaxBlockTextLength

\* C2: splitTextIntoChunks(text, maxLen), maxLen >= 1, returns <<text>> for
\* a text within maxLen and otherwise slices of exactly maxLen characters and
\* a non-empty rest of at most maxLen that concatenate to text; the blocks of
\* an over-length element that is not a heading concatenate to its text
C2_ChunkingLossless ==
    /\ pc = "splitDone" => ChunksOf(spText, spMax, spChunks)
    /\ \A n \in Converted :
          LET text == extractText(doc, n)
          IN  (/\ doc[n].Tag \in {"p", "li", "blockquote", "pre", "code"}
               /\ Len(text) > MaxBlockTextLength)
              => ChunksOf(text, MaxBlockTextLength, ContentsFrom(n, 1))

\* a paragraph of 5000 characters came out as blocks of 2000, 2000 and 1000
C2_Witness ==
    /\ pc = "returned"
    /\ Len(blocks) = 3
    /\ \A k \in 1..3 : blocks[k].Type = "paragraph"
    /\ Len(blocks[1].Content) = 2000 /\ Len(blocks[2].Content) = 2000
    /\ Len(blocks[3].Content) = 1000
    /\ \E n \in Converted : Len(extractText(doc, n)) = 5000 /\ doc[n].Tag = "p"

HasVisibleText == \E n \in 1..Len(doc) : doc[n].Type = "Text" /\ TrimSpace(doc[n].Text) # <<>>

\* C10: the conversion returns at least one block; a document without
\* visible text, and any walk that produced no block, gives exactly one
\* Paragraph with empty text; a block with empty text is only ever that
\* single placeholder
C10_NeverEmptyResult ==
    /\ pc = "walk" => \A k \in 1..Len(blocks) : blocks[k].Content # <<>>
    /\ pc = "returned" =>
          /\ Len(ret.value) >= 1
          /\ ret.value = blocks
          /\ ~HasVisibleText => blocks = <<emptyParagraph>>
          /\ (\A k \in 1..Len(blocks) : origin[k] = 0) => blocks = <<emptyParagraph>>
          /\ \A k \in 1..Len(blocks) :
                blocks[k].Content = <<>> =>
                    Len(blocks) = 1 /\ blocks[k] = emptyParagraph /\ origin[k] = 0

\* a document whose paragraph holds only whitespace gave the placeholder
C10_Witness ==
    /\ pc = "returned"
    /\ blocks = <<emptyParagraph>>
    /\ \E n \in Converted : doc[n].Tag = "p" /\ Children(doc, n) # {}

(***************************************************************************)
(* Properties of the Augmentation.                                         *)
(***************************************************************************)
OpaqueTags == {"pre", "code", "kbd", "samp", "var"}
BlockTags == {"p", "div", "h1", "h2", "h3", "h4", "h5", "h6", "li", "blockquote",
              "td", "th", "dd", "dt", "figcaption"}

IsOpaque(n) == doc[n].Type = "Element" /\ doc[n].Tag \in OpaqueTags
IsBlock(n) == doc[n].Type = "Element" /\ doc[n].Tag \in BlockTags

\* the text nodes below n that lie in no opaque element, in document order
RECURSIVE TextsOutsideOpaque(_, _)
TextsOutsideOpaque(n, j) ==
    IF j > Len(doc) THEN <<>>
    ELSE (IF /\ doc[j].Type = "Text"
             /\ n \in Ancestors(doc, j)
             /\ \A a \in Ancestors(doc, j) : ~IsOpaque(a)
          THEN doc[j].Text ELSE <<>>) \o TextsOutsideOpaque(n, j + 1)

\* the nodes the walk has been called on: those before pos below no block
\* and no opaque element
Walked ==
    {n \in 1..Len(doc) : /\ (n < pos \/ (n = pos /\ pc = "translate"))
                         /\ \A a \in Ancestors(doc, n) : ~IsOpaque(a) /\ ~IsBlock(a)}

SegsOf(n) == {i \in 1..Len(segs) : segs[i].node = n}
CallsOf(n) == {i \in 1..Len(calls) : calls[i].node = n}

RECURSIVE SegsOutput(_)
SegsOutput(i) == IF i > Len(segs) THEN <<>> ELSE segs[i].out \o SegsOutput(i + 1)

\* C4: an opaque element the walk reaches is written as its serialization
\* and nothing more, nothing is written or translated for a node below an
\* opaque element, the text handed to Translate holds no text of an opaque
\* element, and a document made of opaque elements comes out as it went in
\* without a Translate call
C4_OpaqueVerbatim ==
    /\ \A n \in Walked :
          IsOpaque(n) =>
              /\ Cardinality(SegsOf(n)) = 1
              /\ \A i \in SegsOf(n) : segs[i].out = Render(doc, n)
              /\ CallsOf(n) = {}
    /\ \A i \in 1..Len(segs) : \A a \in Ancestors(doc, segs[i].node) : ~IsOpaque(a)
    /\ \A i \in 1..Len(calls) :
          /\ ~IsOpaque(calls[i].node)
          /\ \A a \in Ancestors(doc, calls[i].node) : ~IsOpaque(a)
          /\ calls[i].text = TrimSpace(TextsOutsideOpaque(calls[i].node, 1))
    /\ result = SegsOutput(1)
    /\ (pc = "returned" /\ \A c \in Children(doc, BodyIdx) : IsOpaque(c)) =>
          ret.value = InputHTML(doc) /\ calls = <<>>

\* a paragraph with text of its own and a code element with text was
\* translated, and an opaque element was written by the walk
C4_Witness ==
    /\ pc = "returned"
    /\ \E i \in 1..Len(calls) :
          \E c \in Descendants(doc, calls[i].node) :
              IsOpaque(c) /\ \E t \in Children(doc, c) : doc[t].Type = "Text"
    /\ \E i \in 1..Len(segs) : IsOpaque(segs[i].node) /\ Children(doc, segs[i].node) # {}

\* whether markup el is one element of the given tag holding only text
IsOneElement(el, tag) ==
    /\ Len(el) = 3
    /\ el[1].kind = "open" /\ el[1].tag = tag
    /\ el[2].kind = "text"
    /\ el[3].kind = "close" /\ el[3].tag = tag

\* C5: what a block with text wrote is its serialization alone when
\* Translate failed, and its serialization followed by exactly one element
\* when Translate succeeded
C5_FailureLeavesOriginal ==
    \A i \in 1..Len(calls) :
        LET n == calls[i].node
            orig == Render(doc, n)
        IN  /\ IsBlock(n)
            /\ Cardinality(SegsOf(n)) = 1
            /\ \A j \in SegsOf(n) :
                  IF calls[i].outcome = "ok"
                  THEN /\ SubSeq(segs[j].out, 1, Len(orig)) = orig
                       /\ IsOneElement(SubSeq(segs[j].out, Len(orig) + 1, Len(segs[j].out)),
                                       doc[n].Tag)
                  ELSE segs[j].out = orig

\* one block was translated and another was refused
C5_Witness ==
    /\ pc = "returned"
    /\ \E i \in 1..Len(calls) : calls[i].outcome = "err"
    /\ \E i \in 1..Len(calls) : calls[i].outcome = "ok"

\* the blocks Translate is due for: blocks with text below no block and no
\* opaque element
Units ==
    {n \in 1..Len(doc) : /\ IsBlock(n)
                         /\ TrimSpace(TextsOutsideOpaque(n, 1)) # <<>>
                         /\ \A a \in Ancestors(doc, n) : ~IsOpaque(a) /\ ~IsBlock(a)}

\* C6: TranslateHTML returns a nil error whatever Translate answered, and
\* every block after a refused one is written and handed to Translate
C6_FailureDoesNotAbort ==
    pc = "returned" =>
        /\ ret.err = "nil"
        /\ ret.value = result
        /\ \A i \in 1..Len(calls) :
              calls[i].outcome = "err" =>
                  \A m \in Units :
                      m > calls[i].node =>
                          /\ CallsOf(m) # {}
                          /\ \E j \in SegsOf(m) :
                                SubSeq(segs[j].out, 1, Len(Render(doc, m))) = Render(doc, m)

\* Translate refused a block and was called for a later one
C6_Witness ==
    /\ pc = "returned"
    /\ \E i \in 1..Len(calls) :
          calls[i].outcome = "err" /\ \E j \in 1..Len(calls) : calls[j].node > calls[i].node

(***************************************************************************)
(* Properties of CreatePage.                                               *)
(***************************************************************************)
RECURSIVE SentBlocks(_)
SentBlocks(i) == IF i > Len(requests) THEN <<>> ELSE requests[i].children \o SentBlocks(i + 1)

AllAccepted == \A i \in 1..Len(requests) : requests[i].ok

\* C7: with every request accepted, CreatePage sends the first min(N, 100)
\* blocks with the page, then ceil(max(0, N-100)/100) append requests of at
\* most 100 blocks, and the payloads in the order sent are the blocks
C7_BatchesPartitionBlocks ==
    /\ AllAccepted => /\ Len(SentBlocks(1)) <= Len(blocks)
                      /\ SentBlocks(1) = SubSeq(blocks, 1, Len(SentBlocks(1)))
    /\ (pc = "returned" /\ AllAccepted) =>
          LET N == Len(blocks)
              rest == IF N > 100 THEN N - 100 ELSE 0
          IN  /\ ret.err = "nil"
              /\ requests[1].kind = "create"
              /\ requests[1].children = SubSeq(blocks, 1, IF N < 100 THEN N ELSE 100)
              /\ Len(requests) = 1 + CeilDiv(rest, 100)
              /\ \A i \in 2..Len(requests) :
                    /\ requests[i].kind = "append"
                    /\ requests[i].page = pageResp.ID
                    /\ Len(requests[i].children) \in 1..100
              /\ SentBlocks(1) = blocks

\* a page of more than 200 blocks went out in a creation and two batches,
\* the last one short
C7_Witness ==
    /\ pc = "returned"
    /\ AllAccepted
    /\ Len(requests) = 3
    /\ Len(requests[3].children) < 100

\* C8: when the page was created and an append batch is refused, CreatePage
\* returns an error with the URL of the page, and the refused batch is the
\* last request
C8_AppendFailureKeepsURL ==
    /\ \A i \in 1..(Len(requests) - 1) : requests[i].ok
    /\ \A i \in 2..Len(requests) :
          ~requests[i].ok =>
              /\ pc = "returned"
              /\ ret.err # "nil"
              /\ ret.value = pageResp.URL
              /\ ret.value # ""

\* the second append batch was refused
C8_Witness ==
    /\ pc = "returned"
    /\ Len(requests) = 3
    /\ ~requests[3].ok

\* C9: when the page-creation request fails, CreatePage returns an error
\* and an empty URL and sends no append request
C9_CreationFailureAborts ==
    (Len(requests) >= 1 /\ ~requests[1].ok) =>
        /\ pc = "returned"
        /\ ret.err # "nil"
        /\ ret.value = ""
        /\ Len(requests) = 1

\* the creation of a page of more than 100 blocks was refused
C9_Witness ==
    /\ pc = "returned"
    /\ ~requests[1].ok
    /\ Len(blocks) > 100

(***************************************************************************)
(* Properties of the Augmentation under cancellation.                      *)
(***************************************************************************)
\* C11, as claimed: the context is checked before each Translate call, so
\* once it is cancelled no further Translate call is issued
C11_CancelStopsCalls == [][ctxDone => Len(calls') = Len(calls)]_vars

(***************************************************************************)
(* Further properties of the Export conversion.                            *)
(***************************************************************************)
\* C12: an h1, h2 or h3 with a text over MaxBlockTextLength gives exactly
\* one heading block: the first MaxBlockTextLength-3 characters and three
\* dots; a heading within the limit gives one block with its text as it is;
\* a heading is never cut into chunks
C12_HeadingTruncated ==
    \A n \in Converted :
        doc[n].Tag \in {"h1", "h2", "h3"} =>
            LET text == extractText(doc, n)
                cs == ContentsFrom(n, 1)
            IN  IF text = <<>> THEN cs = <<>>
                ELSE /\ Len(cs) = 1
                     /\ Len(cs[1]) <= MaxBlockTextLength
                     /\ IF Len(text) > MaxBlockTextLength
                        THEN /\ SubSeq(cs[1], 1, MaxBlockTextLength - 3)
                                  = SubSeq(text, 1, MaxBlockTextLength - 3)
                             /\ SubSeq(cs[1], MaxBlockTextLength - 2, Len(cs[1]))
                                  = <<".", ".", ".">>
                        ELSE cs[1] = text

\* a heading of more than MaxBlockTextLength characters was converted
C12_Witness ==
    /\ pc = "returned"
    /\ \E n \in Converted :
          /\ doc[n].Tag \in {"h1", "h2", "h3"}
          /\ Len(extractText(doc, n)) > MaxBlockTextLength
          /\ Len(ContentsFrom(n, 1)) = 1

\* the kind of block of each tag
KindOfTag ==
    [h1 |-> "heading_1", h2 |-> "heading_2", h3 |-> "heading_3",
     li |-> "bulleted_list_item", blockquote |-> "quote", pre |-> "code",
     code |-> "code", p |-> "paragraph"]

HelloTitle ==
    <<Block("paragraph", <<"h", "e", "l", "l", "o">>, ""),
      Block("heading_1", <<"T", "i", "t", "l", "e">>, "")>>

\* C13: the blocks of an element have the kind of its tag (Code with the
\* language "plain text"), the blocks of one element are adjacent, blocks
\* of different elements follow the document order of their elements, and
\* <p>hello</p><h1>Title</h1> gives Paragraph(hello), Heading1(Title)
C13_KindFollowsTag ==
    /\ \A k \in 1..Len(blocks) :
          origin[k] # 0 =>
              LET tag == doc[origin[k]].Tag
              IN  /\ tag \in DOMAIN KindOfTag
                  /\ blocks[k].Type = KindOfTag[tag]
                  /\ blocks[k].Language = (IF tag \in {"pre", "code"} THEN "plain text" ELSE "")
    /\ \A k \in 1..(Len(blocks) - 1) : origin[k] <= origin[k + 1]
    /\ \A n \in Converted :
          (doc[n].Tag \in DOMAIN KindOfTag /\ extractText(doc, n) # <<>>)
              => \E k \in 1..Len(blocks) : origin[k] = n
    /\ (pc = "returned" /\ doc = HelloTitleDoc) => blocks = HelloTitle

\* the example was converted
C13_Witness ==
    /\ pc = "returned"
    /\ doc = HelloTitleDoc
    /\ Len(blocks) = 2

MappedTags == {"h1", "h2", "h3", "li", "blockquote", "pre", "code", "p"}

\* C14, as claimed: every text node with visible text and no ancestor of a
\* mapped tag yields a Paragraph block carrying its text
C14_NoTextDropped ==
    pc = "returned" =>
        \A j \in 1..Len(doc) :
            (/\ doc[j].Type = "Text"
             /\ TrimSpace(doc[j].Text) # <<>>
             /\ \A a \in Ancestors(doc, j) : doc[a].Tag \notin MappedTags)
            => \E k \in 1..Len(blocks) :
                  /\ origin[k] = j
                  /\ blocks[k].Type = "paragraph"

\* the texts of the text nodes below n, outside ul, ol and div, as they are
RECURSIVE RawTextBelow(_, _)
RawTextBelow(n, j) ==
    IF j > Len(doc) THEN <<>>
    ELSE (IF /\ doc[j].Type = "Text"
             /\ n \in Ancestors(doc, j)
             /\ \A a \in Ancestors(doc, j) : doc[a].Tag \notin {"ul", "ol", "div"}
          THEN doc[j].Text ELSE <<>>) \o RawTextBelow(n, j + 1)

\* C19, as claimed for the Export extractor: the text of an element is the
\* texts below it put together untrimmed, trimmed once at the end
C19_TrimFinalOnly ==
    \A n \in Converted :
        (doc[n].Tag = "p" /\ Len(RawTextBelow(n, 1)) <= MaxBlockTextLength)
            => Concat(ContentsFrom(n, 1)) = TrimSpace(RawTextBelow(n, 1))

\* C20, as claimed: no descendant of an element that produced blocks
\* produces blocks
C20_EmitIsTerminal ==
    \A k \in 1..Len(blocks) : \A l \in 1..Len(blocks) :
        origin[k] # 0 => origin[l] \notin Descendants(doc, origin[k])

\* the output without the injected translation elements
RECURSIVE StripInjected(_)
StripInjected(out) ==
    IF out = <<>> THEN <<>>
    ELSE IF /\ Head(out).kind = "open"
            /\ \E i \in 1..Len(Head(out).attr) : Head(out).attr[i] = TranslationClass
    THEN StripInjected(SubSeq(out, 4, Len(out)))
    ELSE <<Head(out)>> \o StripInjected(Tail(out))

\* C15, as claimed: the output without the injected siblings is the input
C15_OutputIsomorphic ==
    (pc = "returned" /\ ret.err = "nil") => StripInjected(ret.value) = InputHTML(doc)

\* C16: Translate is called for one block at a time and in document order,
\* the walk stands still while a call is pending, the originals are written
\* in document order, and the translation element of a block comes right
\* after the serialization of that block and before anything written later
C16_SequentialInOrder ==
    /\ \A i \in 1..Len(calls) : \A j \in 1..Len(calls) :
          i < j => calls[i].node < calls[j].node /\ calls[i].outcome # "pending"
    /\ (pc = "translate") <=> (calls # <<>> /\ calls[Len(calls)].outcome = "pending")
    /\ pc = "translate" =>
          /\ pos = calls[Len(calls)].node
          /\ segs # <<>> /\ segs[Len(segs)].node = pos
          /\ segs[Len(segs)].out = Render(doc, pos)
    /\ \A i \in 1..Len(segs) : \A j \in 1..Len(segs) : i < j => segs[i].node < segs[j].node
    /\ result = SegsOutput(1)
    /\ \A i \in 1..Len(segs) :
          LET n == segs[i].node
          IN  IF \E c \in CallsOf(n) : calls[c].outcome = "ok"
              THEN \E t \in Translations :
                      segs[i].out = Render(doc, n) \o createTranslationElement(doc, n, t)
              ELSE segs[i].out = Render(doc, n)
    /\ \A i \in 1..Len(calls) : Cardinality(SegsOf(calls[i].node)) = 1

\* two blocks were translated one after the other
C16_Witness ==
    /\ pc = "returned"
    /\ Len(calls) = 2
    /\ calls[1].outcome = "ok" /\ calls[2].outcome = "ok"

\* C17, as claimed: an opaque element below blocks that all have empty text
\* is written to the output
C17_EmptyBlockDescended ==
    pc = "returned" =>
        \A n \in 1..Len(doc) :
            (/\ IsOpaque(n)
             /\ \E a \in Ancestors(doc, n) : IsBlock(a)
             /\ \A a \in Ancestors(doc, n) :
                   /\ ~IsOpaque(a)
                   /\ IsBlock(a) => TrimSpace(htExtractText(doc, a)) = <<>>)
            => \E i \in SegsOf(n) : segs[i].out = Render(doc, n)

\* C18, as claimed: the splitter ends for every maxLen >= 0: each pass of
\* its loop shortens the text that is left, so the passes are at most as
\* many as the characters of the text
C18_SplitTerminates ==
    [][(pc = "splitLoop" /\ pc' = "splitLoop") => Len(spRest') < Len(spRest)]_vars

\* a line that starts with a tab or four spaces, or matches the pattern
IsCodeLine(line) ==
    \/ HasPrefix(line, <<"\t">>) \/ HasPrefix(line, <<" ", " ", " ", " ">>)
    \/ matchCodePattern(line)

\* the paragraph as it stands in the input: without the blank lines around
\* it, its first line with the indentation it has
AsInInput(para) ==
    LET lead == Len(para) - Len(TrimLeft(para))
        breaks == {k \in 1..lead : para[k] = "\n"}
        from == IF breaks = {} THEN 1 ELSE 1 + CHOOSE k \in breaks : \A j \in breaks : j <= k
    IN  TrimRight(SubSeq(para, from, Len(para)))

\* strictly more than half of the lines of the paragraph are code lines
MajorityCode(para) ==
    LET lines == Split(AsInInput(para), <<"\n">>)
    IN  2 * Cardinality({i \in 1..Len(lines) : IsCodeLine(lines[i])}) > Len(lines)

\* C21, as claimed: a non-empty paragraph of the input gets no Translate
\* call if and only if strictly more than half of its lines, as they stand
\* in the input, are code lines
C21_CodeIffMajority ==
    pc = "returned" =>
        \A i \in 1..Len(Paragraphs) :
            TrimSpace(Paragraphs[i]) # <<>> =>
                ((\A c \in 1..Len(calls) : calls[c].node # i) <=> MajorityCode(Paragraphs[i]))

\* the credential the claim names for a provider, as the configuration of
\* either package holds it
CredentialOf(config) ==
    IF newPkg = "translator"
    THEN (IF config.Provider = "ollama" THEN config.URL ELSE config.APIKey)
    ELSE (IF config.Provider = "ollama" THEN config.OllamaURL ELSE config.GeminiAPIKey)

ModelOf(config) == IF newPkg = "translator" THEN config.Model ELSE config.OllamaModel

\* the providers a constructor knows, and those of them that need a credential
KnownProviders ==
    IF newPkg = "translator" THEN {"gemini", "ollama", "google", "microsoft"}
    ELSE {"gemini", "ollama"}
NeedCredential == KnownProviders \ {"google"}

\* exactly one of the instance and the error is nil
ExactlyOne == (ret.value = NilInstance) <=> (ret.err # NilError)

\* C22, as claimed: in both constructors gemini or microsoft without API
\* key and ollama without URL give ErrProviderNotConfigured
C22_NewAsClaimed ==
    pc = "newDone" =>
        /\ ExactlyOne
        /\ (/\ newConfig.Provider \in {"gemini", "microsoft", "ollama"}
            /\ CredentialOf(newConfig) = "")
           => ret.err.wraps = "ErrProviderNotConfigured"

\* C22: each constructor returns exactly one of an instance and an error;
\* "disabled", "" and a provider the constructor knows without the
\* credential it needs give ErrProviderNotConfigured, a provider the
\* constructor does not know gives ErrProviderNotSupported, every other
\* configuration gives an instance, and ollama with an empty model gets
\* the model "qwen2:4b"
C22_NewResult ==
    pc = "newDone" =>
        /\ ExactlyOne
        /\ ret.err.wraps \in {"nil", "ErrProviderNotConfigured", "ErrProviderNotSupported"}
        /\ ret.err.wraps = "ErrProviderNotConfigured" <=>
              \/ newConfig.Provider \in {"disabled", ""}
              \/ newConfig.Provider \in NeedCredential /\ CredentialOf(newConfig) = ""
        /\ ret.err.wraps = "ErrProviderNotSupported" <=>
              newConfig.Provider \notin KnownProviders \cup {"disabled", ""}
        /\ (newConfig.Provider = "ollama" /\ ret.err = NilError) =>
              ret.value.Model = IF ModelOf(newConfig) = "" THEN "qwen2:4b"
                                ELSE ModelOf(newConfig)

\* summarizer.New was called for microsoft without a key
C22_Witness ==
    /\ pc = "newDone"
    /\ newPkg = "summarizer"
    /\ newConfig.Provider = "microsoft"
    /\ newConfig.GeminiAPIKey = ""
    /\ ret.err.wraps = "ErrProviderNotSupported"

\* C23, as claimed: what truncateContent returns is at most maxLen long
C23_TruncatedWithinLimit ==
    pc = "truncateDone" => Len(ret.value) <= tcMax

\* the Block elements with text that lie in no opaque and no Block element
OutermostBlocks ==
    {n \in 1..Len(doc) :
        /\ IsBlock(n)
        /\ TrimSpace(TextsOutsideOpaque(n, 1)) # <<>>
        /\ \A a \in Ancestors(doc, n) : ~IsOpaque(a) /\ ~IsBlock(a)}

\* C24: Translate is called, and a sibling injected, only for an outermost
\* Block element with text, at most once and with the trimmed text of the
\* whole element; when the walk is over each of them has had exactly one
\* call and the calls are as many as they are
C24_OutermostBlockIsUnit ==
    /\ \A i \in 1..Len(calls) :
          /\ calls[i].node \in OutermostBlocks
          /\ calls[i].text = TrimSpace(TextsOutsideOpaque(calls[i].node, 1))
    /\ \A n \in 1..Len(doc) : Cardinality(CallsOf(n)) <= 1
    /\ \A i \in 1..Len(segs) :
          segs[i].kind = "block" => segs[i].node \in OutermostBlocks
    /\ pc = "returned" =>
          /\ \A n \in OutermostBlocks : Cardinality(CallsOf(n)) = 1
          /\ Len(calls) = Cardinality(OutermostBlocks)

\* a Block element with a Block element inside went through the walk
C24_Witness ==
    /\ pc = "returned"
    /\ doc = NestedBlockDoc
    /\ Len(calls) = 1
    /\ calls[1].node = BodyIdx + 1

\* C25, as claimed: the Folder a successful CreateFolder returned is the
\* row stored for its title
C25_ReturnedIsStored ==
    (pc = "CreateFolder" /\ ret.value # NilFolder) =>
        /\ RowsWithTitle(ret.value.Title) # {}
        /\ \A f \in RowsWithTitle(ret.value.Title) : f = ret.value

====
